---- MODULE Spec2Model ----
(***************************************************************************)
(* Phased, deferred rendering of data definitions (sphinxnotes.data).      *)
(*                                                                         *)
(* One document is read: definitions (directives and roles) are executed   *)
(* by the host parser, each calling BaseDataDefiner.render_or_pass; then   *)
(* the post-parse scan (_ParsedHook.run) and the post-resolve scan         *)
(* (_ResolvingHook.apply) walk the document tree.                          *)
(*                                                                         *)
(* The document tree is a heap of nodes: heap[i] is node i, node 1 is the  *)
(* document, kids are node ids.  A node that was replaced stays in the     *)
(* heap, detached.  No construction site of the sources gives a            *)
(* pending_node children, so Placeholders are leaves here.  Every          *)
(* construction site passes PendingData, so data is raw data plus schema   *)
(* and `valid` says whether Schema.parse accepts it.  ResultSpec takes a   *)
(* Placeholder constructed with children, renders it and flattens it.      *)
(*                                                                         *)
(* The functions that read no document (Template.render, Phase.option_spec *)
(* and the like) are called on their own under FnSpec: `call` holds the    *)
(* function, its arguments and what it returned or raised.                 *)
(***************************************************************************)
EXTENDS Naturals, Sequences, FiniteSets, TLC

VARIABLES heap, log, defs, err, pc, ndef, render_debug, call

vars == <<heap, log, defs, err, pc, ndef, render_debug, call>>

\* Number of definitions the host parser executes in the document.
MaxDefs == 2

\* template.py: class Phase(Enum), by member name.
Phases == {"Parsing", "Parsed", "PostTranform"}

\* A template text is known by what happens to it: whether the template
\* evaluator rejects it ("template"), whether the markup renderer raises on
\* its output ("markup"), and whether its output holds a definition of its
\* own (nest: the phase of that definition's template).
NoTmpl == [phase |-> "none", debug |-> FALSE, fail |-> "none", nest |-> "none"]

Template(phase, debug, fail, nest) ==
    [phase |-> phase, debug |-> debug, fail |-> fail, nest |-> nest]

EmptyCtx == [x \in {} |-> ""]

\* No function has been called.
NoCall == [fn |-> "none"]

\* What a call gives back: a value, or the exception that left it.
Return(v) == [raised |-> "none", val |-> v]

Raised(what) == [raised |-> what, val |-> "none"]

\* A parameter the caller did not pass.
Missing == [missing |-> TRUE]

\* The sequences over S of length up to n.
SeqsUpTo(S, n) == UNION {[1..k -> S] : k \in 0..n}

Document == 1

Title == 2

\* The four hook lists of a Placeholder, each a sequence of hooks.
HookLists == {"raw_data", "parsed_data", "markup_text", "rendered_node"}

NoHooks == [l \in HookLists |-> <<>>]

\* atts are the node's attributes, line its source location (0: none); src
\* is, for a rendered_node and a report, the Placeholder whose chain made it.
NewNode(kind) ==
    [kind |-> kind, kids |-> <<>>, tmpl |-> NoTmpl, valid |-> TRUE,
     inline |-> FALSE, extra |-> EmptyCtx, src |-> 0, data |-> "none",
     hooks |-> NoHooks, atts |-> {}, line |-> 0]

\* pending_node.__init__ as it would be if the extra context were a mapping
\* shared with a Placeholder rendered earlier, not a new empty one.
pending_node_shared_extra(valid, tmpl) ==
    [NewNode("pending") EXCEPT !.tmpl = tmpl, !.valid = valid, !.data = "pending",
                               !.extra = ("shared" :> "on_anytime")]

\* pending_node.__init__: data, template, inline False, empty extra context,
\* empty hook lists.
pending_node(valid, tmpl) ==
    [NewNode("pending") EXCEPT !.tmpl = tmpl, !.valid = valid, !.data = "pending"]

\* The working state the code acts on within one handler.
World == [heap |-> heap, log |-> log, defs |-> defs, err |-> err]

Alloc(w, node) == [w EXCEPT !.heap = Append(@, node)]

Emit(w, ev, n, a) == [w EXCEPT !.log = Append(@, [ev |-> ev, n |-> n, a |-> a])]

\* An exception leaving the current call: nothing after it runs.
Raise(w, n, what) == [Emit(w, "raise", n, what) EXCEPT !.err = what]

AddKid(w, parent, kid) == [w EXCEPT !.heap[parent].kids = Append(@, kid)]


(***************************************************************************)
(* ExtraContextGenerator: each checkpoint contributes a variable of its    *)
(* own and a variable every checkpoint offers ("shared"); a key already    *)
(* set keeps its value.                                                    *)
(***************************************************************************)
GenContext(cp) == (cp :> cp) @@ ("shared" :> cp)

Generate(w, p, cp) ==
    Emit([w EXCEPT !.heap[p].extra = @ @@ GenContext(cp)], "gen", p, cp)

\* The checkpoint a scan bound to `phase` generates context for.
CheckpointOf(phase) ==
    CASE phase = "Parsing" -> "on_parsing"
      [] phase = "Parsed" -> "on_parsed"
      [] phase = "PostTranform" -> "on_post_transform"

(***************************************************************************)
(* The render chain, pending_node.render.  rid is the rendered_node made   *)
(* at step 0.  Each stage logs itself; a failed stage adds the report to   *)
(* the container and returns it.  A hook that runs logs itself with the    *)
(* list it is in.                                                          *)
(***************************************************************************)
RECURSIVE render_or_pass(_, _, _, _)

HookEvents(p, list, hs) ==
    [i \in 1..Len(hs) |-> [ev |-> "hook", n |-> p, a |-> list, h |-> hs[i]]]

\* FireHooks as it would be if the list were walked from its end.
FireHooks_reversed(w, p, list) ==
    LET hs == w.heap[p].hooks[list]
    IN  [w EXCEPT !.log = @ \o HookEvents(p, list, [i \in 1..Len(hs) |-> hs[Len(hs) + 1 - i]])]

\* for hook in self._<list>_hooks: hook(self, ...)
FireHooks(w, p, list) ==
    [w EXCEPT !.log = @ \o HookEvents(p, list, w.heap[p].hooks[list])]

\* rendered += report: the report of the chain of rid's Placeholder.
AddReport(w, rid) ==
    AddKid(Alloc(w, [NewNode("report") EXCEPT !.src = w.heap[rid].src]), rid, Len(w.heap) + 1)

Fail(w, p, rid, stage) == AddReport(Emit(w, "fail", p, stage), rid)

\* The template of a definition held by another template's output: a
\* directive derived by StrictDataDefineDirective.derive, valid data.
NestedTemplate(phase) == Template(phase, FALSE, "none", "none")

\* The parsed elements with the node the nested definition's run returned.
NestedResult(d, elem) ==
    [raised |-> d.w.err # "none", w |-> [d.w EXCEPT !.err = "none"], ns |-> <<elem, d.id>>]

\* The element the host parser makes of the markup's own text.
MarkupElement(w, p) == NewNode(IF w.heap[p].inline THEN "text" ELSE "paragraph")

\* MarkupRenderer(host).render(markup, inline): the elements parsed from the
\* markup; the host parser runs the definitions the markup holds.
MarkupRenderer_render(w, p, host) ==
    IF w.heap[p].tmpl.fail = "markup"
    THEN [raised |-> TRUE, w |-> w, ns |-> <<>>]
    ELSE IF w.heap[p].tmpl.nest = "none"
    THEN [raised |-> FALSE, w |-> Alloc(w, MarkupElement(w, p)), ns |-> <<Len(w.heap) + 1>>]
    ELSE NestedResult(render_or_pass(Alloc(w, MarkupElement(w, p)), TRUE,
                                     NestedTemplate(w.heap[p].tmpl.nest), "nested"),
                      Len(w.heap) + 1)

\* AttachReport as it would be if only the template's own flag were read.
AttachReport_template_only(w, p, rid) ==
    IF w.heap[p].tmpl.debug THEN AddReport(w, rid) ELSE w

\* if self.template.debug or Config.render_debug: rendered += report
AttachReport(w, p, rid) ==
    IF w.heap[p].tmpl.debug \/ render_debug THEN AddReport(w, rid) ELSE w

\* 4. rendered += ns, then the report when debug is on, then the
\* rendered-node hooks.
Assemble(w, p, rid, ns) ==
    FireHooks(AttachReport([Emit(w, "stage", p, "assemble") EXCEPT !.heap[rid].kids = @ \o ns],
                           p, rid),
              p, "rendered_node")

\* The except clause around MarkupRenderer.render, and what follows the try.
AfterMarkup(m, p, rid) ==
    IF m.raised THEN Fail(m.w, p, rid, "markup") ELSE Assemble(m.w, p, rid, m.ns)

\* The markup text the template evaluator returns.  A text is known by what
\* made it: 0 is the template's own output, and a markup-text hook returns
\* the text it is given with its own mark after it.
TemplateOutput == <<0>>

HookText(h, markup) == Append(markup, h)

\* A markup-text hook called with the text `markup`.
MarkupHookEvent(p, h, markup) ==
    [ev |-> "hook", n |-> p, a |-> "markup_text", h |-> h, got |-> markup]

\* MarkupTextHooks as it would be if what a hook returns were dropped.
RECURSIVE MarkupTextHooks_result_dropped(_, _, _, _)
MarkupTextHooks_result_dropped(w, p, i, markup) ==
    IF i > Len(w.heap[p].hooks["markup_text"]) THEN [w |-> w, markup |-> markup]
    ELSE MarkupTextHooks_result_dropped(
             [w EXCEPT !.log = Append(@, MarkupHookEvent(p, w.heap[p].hooks["markup_text"][i],
                                                         markup))],
             p, i + 1, markup)

\* for hook in self._markup_text_hooks: markup = hook(self, markup), from
\* the i-th hook on.
RECURSIVE MarkupTextHooks(_, _, _, _)
MarkupTextHooks(w, p, i, markup) ==
    IF i > Len(w.heap[p].hooks["markup_text"]) THEN [w |-> w, markup |-> markup]
    ELSE MarkupTextHooks(
             [w EXCEPT !.log = Append(@, MarkupHookEvent(p, w.heap[p].hooks["markup_text"][i],
                                                         markup))],
             p, i + 1, HookText(w.heap[p].hooks["markup_text"][i], markup))

\* MarkupRenderer(host).render(markup, inline=self.inline) called with the
\* text m.markup.
ParseMarkup(m, p, host) ==
    MarkupRenderer_render(
        [Emit(m.w, "stage", p, "markup") EXCEPT
            !.log = Append(@, [ev |-> "parse", n |-> p, a |-> host, text |-> m.markup])],
        p, host)

\* The markup-text hooks, then 3. markup text -> doctree nodes.
MarkupParse(w, p, rid, host) ==
    AfterMarkup(ParseMarkup(MarkupTextHooks(w, p, 1, TemplateOutput), p, host), p, rid)

\* TemplateRender as it would be if a template failure were reported and the
\* chain went on to the markup stage.
TemplateRender_continues(w, p, rid, host) ==
    IF w.heap[p].tmpl.fail = "template"
    THEN MarkupParse(Fail(Emit(w, "stage", p, "template"), p, rid, "template"), p, rid, host)
    ELSE MarkupParse(Emit(w, "stage", p, "template"), p, rid, host)

\* 2. TemplateRenderer(text).render(data, extra).
TemplateRender(w, p, rid, host) ==
    IF w.heap[p].tmpl.fail = "template"
    THEN Fail(Emit(w, "stage", p, "template"), p, rid, "template")
    ELSE MarkupParse(Emit(w, "stage", p, "template"), p, rid, host)

\* After a parse that succeeded: the parsed-data hooks, rendered.data = data,
\* and on to the template.
Parsed(w, p, rid, host) ==
    TemplateRender([FireHooks(w, p, "parsed_data") EXCEPT !.heap[rid].data = "parsed"],
                   p, rid, host)

\* Validate as it would be without the return in the except clause: the
\* failure is reported and the chain goes on.
Validate_continues(w, p, rid, host) ==
    IF ~w.heap[p].valid
    THEN TemplateRender(Fail(Emit(FireHooks(w, p, "raw_data"), "stage", p, "validate"),
                             p, rid, "validate"),
                        p, rid, host)
    ELSE Parsed(Emit(FireHooks(w, p, "raw_data"), "stage", p, "validate"), p, rid, host)

\* 1. The data is PendingData: the raw-data hooks, then self.data.parse().
Validate(w, p, rid, host) ==
    IF ~w.heap[p].valid
    THEN Fail(Emit(FireHooks(w, p, "raw_data"), "stage", p, "validate"), p, rid, "validate")
    ELSE Parsed(Emit(FireHooks(w, p, "raw_data"), "stage", p, "validate"), p, rid, host)

\* CopyChildren as it would be if the copies were inserted one by one at the
\* front of the container.
CopyChildren_reversed(w, p, rid) ==
    LET ks == w.heap[p].kids
    IN  [w EXCEPT !.heap = [@ \o [i \in 1..Len(ks) |-> w.heap[ks[i]]]
                              EXCEPT ![rid].kids =
                                  [i \in 1..Len(ks) |-> Len(w.heap) + Len(ks) + 1 - i]]]

\* rendered[:0] = [x.deepcopy() for x in self.children]: the copies are new
\* nodes, in the children's order.  Reporter(rendered).clear_empty() follows;
\* it takes out reports that hold nothing, and the children here are not
\* reports.
CopyChildren(w, p, rid) ==
    LET ks == w.heap[p].kids
    IN  [w EXCEPT !.heap = [@ \o [i \in 1..Len(ks) |-> w.heap[ks[i]]]
                              EXCEPT ![rid].kids = [i \in 1..Len(ks) |-> Len(w.heap) + i]]]

\* 0. rendered = rendered_node(); rendered.update_all_atts(self);
\* rendered.source, rendered.line = self.source, self.line.
NewRendered(w, p) ==
    [NewNode("rendered") EXCEPT !.src = p, !.atts = w.heap[p].atts, !.line = w.heap[p].line]

\* pending_node.render(host): the rendered_node, built from the Placeholder.
render(w, p, host) ==
    [w |-> Validate(CopyChildren(Alloc(Emit(w, "render", p, host), NewRendered(w, p)),
                                 p, Len(w.heap) + 1),
                    p, Len(w.heap) + 1, host),
     id |-> Len(w.heap) + 1]

(***************************************************************************)
(* BaseDataDefiner                                                         *)
(***************************************************************************)
\* process_pending_node: set_source_info(n) gives the Placeholder the place of
\* its definition; a role's Placeholder is inline.
process_pending_node(w, p, surface) ==
    IF surface = "role"
    THEN [Emit(w, "process_pending_node", p, surface) EXCEPT !.heap[p].inline = TRUE,
                                                             !.heap[p].line = p]
    ELSE [Emit(w, "process_pending_node", p, surface) EXCEPT !.heap[p].line = p]

\* build_pending_node: process_raw_data, the Placeholder, the parsing
\* checkpoint's context, process_pending_node.
build_pending_node(w, valid, tmpl, surface) ==
    [w |-> process_pending_node(
             Generate(Emit(Alloc(Emit(w, "process_raw_data", Len(w.heap) + 1, surface),
                                 pending_node(valid, tmpl)),
                           "new", Len(w.heap) + 1, surface),
                      Len(w.heap) + 1, "on_parsing"),
             Len(w.heap) + 1, surface),
     id |-> Len(w.heap) + 1]

\* What render_pending_node does with the rendered node.  rendered_node
\* declares `data` without a value and render sets it only after a parse that
\* succeeded, so reading rendered.data of a chain that failed at validation
\* raises AttributeError.
process_rendered(r, p, surface) ==
    IF r.w.err # "none" THEN r
    ELSE IF r.w.heap[r.id].data = "none"
    THEN [w |-> Raise(r.w, p, "AttributeError"), id |-> r.id]
    ELSE [w |-> Emit(IF r.w.heap[r.id].data = "parsed"
                     THEN Emit(r.w, "process_paresd_data", p, surface) ELSE r.w,
                     "process_rendered_node", p, surface),
          id |-> r.id]

\* render_pending_node: the anytime context, the render chain, the two
\* process_* callbacks.
render_pending_node(w, p, surface) ==
    process_rendered(render(Generate(w, p, "on_anytime"), p, "Parsing"), p, surface)

\* render_or_pass returning node `id` for the Placeholder p.
Returned(w, valid, tmpl, surface, p, id, kind) ==
    [w |-> [Emit(w, "return", p, kind) EXCEPT
               !.defs = Append(@, [valid |-> valid, tmpl |-> tmpl, surface |-> surface,
                                   node |-> p, out |-> id, ret |-> kind])],
     id |-> id]

ReturnRendered(r, valid, tmpl, surface, p) ==
    IF r.w.err # "none" THEN r
    ELSE Returned(r.w, valid, tmpl, surface, p, r.id, "rendered")

\* render_or_pass from the built Placeholder on: pending unless the
\* template's phase is Parsing.
render_or_pending(b, valid, tmpl, surface) ==
    IF b.w.heap[b.id].tmpl.phase # "Parsing"
    THEN Returned(b.w, valid, tmpl, surface, b.id, b.id, "pending")
    ELSE ReturnRendered(render_pending_node(b.w, b.id, surface), valid, tmpl, surface, b.id)

render_or_pass(w, valid, tmpl, surface) ==
    render_or_pending(
        build_pending_node(Emit(w, "call", Len(w.heap) + 1, surface), valid, tmpl, surface),
        valid, tmpl, surface)

(***************************************************************************)
(* Tree operations of the host (docutils) as the scans use them.           *)
(***************************************************************************)
IsKid(w, q, n) == \E i \in 1..Len(w.heap[q].kids) : w.heap[q].kids[i] = n

Parent(w, n) == CHOOSE q \in 1..Len(w.heap) : IsKid(w, q, n)

IndexOf(s, n) == CHOOSE i \in 1..Len(s) : s[i] = n

\* replace_self as it would be if the new node were inserted and the old one
\* left where it is.
replace_self_keeps_old(w, old, new, scan) ==
    LET q == Parent(w, old)
        i == IndexOf(w.heap[q].kids, old)
    IN  Emit([w EXCEPT !.heap[q].kids =
                 SubSeq(@, 1, i) \o <<new>> \o SubSeq(@, i + 1, Len(@))],
             "replace", old, scan)

\* Node.replace_self(new): the parent's child `old` becomes `new`.
replace_self(w, old, new, scan) ==
    LET q == Parent(w, old)
        i == IndexOf(w.heap[q].kids, old)
    IN  Emit([w EXCEPT !.heap[q].kids[i] = new], "replace", old, scan)

\* The children of r that are reports, and those that are not.
ReportsIn(w, r) == SelectSeq(w.heap[r].kids, LAMBDA k : w.heap[k].kind = "report")

NotReportsIn(w, r) == SelectSeq(w.heap[r].kids, LAMBDA k : w.heap[k].kind # "report")

\* rendered_inline as it would be without self.clear(): the container keeps
\* what it hands out.
rendered_inline_not_cleared(w, r, inliner) ==
    LET reports == ReportsIn(w, r)
        made == [i \in 1..Len(reports) |-> Len(w.heap) + i]
    IN  [w |-> [w EXCEPT !.heap = [@ \o [i \in 1..Len(reports) |-> NewNode("problematic")]
                                     EXCEPT ![r].kids = NotReportsIn(w, r) \o made]],
         ns |-> NotReportsIn(w, r) \o made,
         msgs |-> reports]

\* rendered_node.inline(inliner): the reports are taken out, a problematic
\* node is appended for each, and the container is emptied; w.ns are the
\* children it had then, w.msgs the reports.
rendered_inline(w, r, inliner) ==
    LET reports == ReportsIn(w, r)
        made == [i \in 1..Len(reports) |-> Len(w.heap) + i]
    IN  [w |-> [w EXCEPT !.heap = [@ \o [i \in 1..Len(reports) |-> NewNode("problematic")]
                                     EXCEPT ![r].kids = <<>>]],
         ns |-> NotReportsIn(w, r) \o made,
         msgs |-> reports]

BlockKinds == {"paragraph", "title", "rendered"}

\* find_nearest_block_element(node): the node or its nearest ancestor that
\* is a block element, 0 when there is none.
RECURSIVE find_nearest_block_element(_, _)
find_nearest_block_element(w, n) ==
    IF w.heap[n].kind \in BlockKinds THEN n
    ELSE IF \E q \in 1..Len(w.heap) : IsKid(w, q, n)
    THEN find_nearest_block_element(w, Parent(w, n))
    ELSE 0

\* find_nearest_block_element(self.parent) or find_current_document(self)
BlockParent(w, p) ==
    IF find_nearest_block_element(w, Parent(w, p)) # 0
    THEN find_nearest_block_element(w, Parent(w, p)) ELSE Document

\* blkparent += msgs; self.replace_self(ns)
PlaceInline(f, p, scan) ==
    LET w == [f.w EXCEPT !.heap[BlockParent(f.w, p)].kids = @ \o f.msgs]
        q == Parent(w, p)
        i == IndexOf(w.heap[q].kids, p)
    IN  Emit([w EXCEPT !.heap[q].kids = SubSeq(@, 1, i - 1) \o f.ns \o SubSeq(@, i + 1, Len(@))],
             "replace", p, scan)

\* pending_node.replace_self_inline(rendered, inliner): both parameters are
\* required.
replace_self_inline(w, p, r, inliner, scan) ==
    IF inliner = Missing THEN Raise(w, p, "TypeError")
    ELSE PlaceInline(rendered_inline(w, r, inliner), p, scan)

(***************************************************************************)
(* The phase scans.  Both run the same loop over                           *)
(* document.findall(pending_data), bound to their phase.                   *)
(***************************************************************************)
\* The end of the loop body.  An inline Placeholder is replaced by
\* pending.replace_self_inline(rendered): the call leaves out the `inliner`
\* parameter replace_self_inline requires.
ScanReplace(r, p, scan) ==
    IF r.w.err # "none" THEN r.w
    ELSE IF r.w.heap[p].inline THEN replace_self_inline(r.w, p, r.id, Missing, scan)
    ELSE replace_self(r.w, p, r.id, scan)

\* ScanDue as it would be without the phase comparison.
ScanDue_any_phase(w, p, scan) ==
    ScanReplace(render(Generate(w, p, "on_anytime"), p, scan), p, scan)

\* The phase comparison and what follows it.
ScanDue(w, p, scan) ==
    IF w.heap[p].tmpl.phase # scan THEN w
    ELSE ScanReplace(render(Generate(w, p, "on_anytime"), p, scan), p, scan)

\* The loop body as it would be with the phase comparison first.
ScanBody_due_only(w, p, scan) ==
    IF w.heap[p].tmpl.phase # scan THEN Emit(w, "visit", p, scan)
    ELSE ScanDue(Generate(Emit(w, "visit", p, scan), p, CheckpointOf(scan)), p, scan)

\* The loop body for one Placeholder the scan found.
ScanBody(w, p, scan) ==
    ScanDue(Generate(Emit(w, "visit", p, scan), p, CheckpointOf(scan)), p, scan)

\* Node.findall is a generator over the live tree: a node is yielded, the
\* loop body runs, and only then are the node's children read, one index at
\* a time, from the list as it is at that moment.
RECURSIVE findall(_, _, _, _)
findall(w, n, i, scan) ==
    IF w.err # "none" \/ i > Len(w.heap[n].kids) THEN w
    ELSE findall(findall(IF w.heap[w.heap[n].kids[i]].kind = "pending"
                         THEN ScanBody(w, w.heap[n].kids[i], scan) ELSE w,
                         w.heap[n].kids[i], 1, scan),
                 n, i + 1, scan)

Scan(w, scan) == findall(Emit(w, "scan", Document, scan), Document, 1, scan)

Commit(w, next) ==
    /\ heap' = w.heap
    /\ log' = w.log
    /\ defs' = w.defs
    /\ err' = w.err
    /\ pc' = IF w.err # "none" THEN "crashed" ELSE next
    /\ call' = call

\* _ParsedHook.run: the directive appended to the source, run when the
\* document's own text has been parsed.
ParsedHook ==
    /\ pc = "parsing"
    /\ Commit(Scan(World, "Parsed"), "parsed")
    /\ UNCHANGED <<ndef, render_debug>>

\* _ResolvingHook.apply: the post-transform after reference resolution.
ResolvingHook ==
    /\ pc = "parsed"
    /\ Commit(Scan(World, "PostTranform"), "resolved")
    /\ UNCHANGED <<ndef, render_debug>>

(***************************************************************************)
(* The authoring surfaces.                                                 *)
(***************************************************************************)
TemplateFails == {"none", "template", "markup"}

\* What a definition is given: whether its raw data passes the schema, and
\* its template.  A failure hides what comes after it: data that fails
\* validation comes with a plain template, and only a template that renders
\* holds a definition of its own.  The debug flag is read at the end of a
\* chain that succeeded; it varies on the templates that hold no definition.
Inputs(fails, nests, debugs) ==
    { [valid |-> x[1], tmpl |-> Template(x[2], x[3], x[4], x[5])] :
        x \in { y \in BOOLEAN \X Phases \X debugs \X fails \X nests :
                  /\ ~y[1] => y[4] = "none"
                  /\ (~y[1] \/ y[4] # "none") => (y[5] = "none" /\ ~y[3])
                  /\ y[5] # "none" => ~y[3] } }

DirectiveInputs == Inputs(TemplateFails, {"none"} \cup Phases, BOOLEAN)

\* Inline markup holds no directive.
RoleInputs == Inputs({"none"}, {"none"}, {FALSE})

\* AutoDataDefineDirective differs from a directive in current_raw_data only.
AutoInputs == Inputs({"none"}, {"none"}, {FALSE})

\* The host parser appending a directive's node to the document.
Attach(r) == IF r.w.err # "none" THEN r.w ELSE AddKid(r.w, Document, r.id)

\* BaseDataDefineDirective.run: [self.render_or_pass()].
DefineDirective(in) ==
    /\ pc = "parsing" /\ ndef < MaxDefs
    /\ Commit(Attach(render_or_pass(World, in.valid, in.tmpl, "directive")), "parsing")
    /\ ndef' = ndef + 1
    /\ UNCHANGED render_debug

\* What BaseDataDefineRole.run returns: a pending Placeholder as the role's
\* node, inside the paragraph the host parser is building; a rendered node
\* is flattened by n.inline(parent=...), and rendered_node.inline has no
\* parameter `parent`, so that call raises TypeError.
RoleResult(r) ==
    IF r.w.err # "none" THEN r.w
    ELSE IF r.w.heap[r.id].kind = "pending"
    THEN AddKid(Alloc(r.w, [NewNode("paragraph") EXCEPT !.kids = <<r.id>>]),
                Document, Len(r.w.heap) + 1)
    ELSE Raise(r.w, r.id, "TypeError")

\* BaseDataDefineRole.run
DefineRole(in) ==
    /\ pc = "parsing" /\ ndef < MaxDefs
    /\ Commit(RoleResult(render_or_pass(World, in.valid, in.tmpl, "role")), "parsing")
    /\ ndef' = ndef + 1
    /\ UNCHANGED render_debug

\* AutoDataDefineDirective.external_name_template
external_name_template == Template("Parsed", TRUE, "none", "none")

\* find_titular_node_upward(self.state.parent): the title of the section the
\* directive stands in.
find_titular_node_upward(w) == Title

\* AutoDataDefineDirective.current_raw_data: with a name and a title above,
\* the title's children are replaced by a new inline Placeholder.
current_raw_data_auto(w, valid, named) ==
    IF ~named THEN w
    ELSE [Emit(Alloc(w, [pending_node(valid, external_name_template) EXCEPT !.inline = TRUE]),
               "new", Len(w.heap) + 1, "auto_title")
            EXCEPT !.heap[find_titular_node_upward(w)].kids = <<Len(w.heap) + 1>>]

\* AutoDataDefineDirective as a directive: run calls render_or_pass, which
\* calls current_raw_data first.
DefineAuto(in) ==
    /\ pc = "parsing" /\ ndef < MaxDefs
    /\ Commit(Attach(render_or_pass(current_raw_data_auto(World, in.valid, TRUE),
                                    in.valid, in.tmpl, "directive")), "parsing")
    /\ ndef' = ndef + 1
    /\ UNCHANGED render_debug

\* The document as the parser has it before the first definition: a section
\* title with its text.
Init ==
    /\ heap = << [NewNode("document") EXCEPT !.kids = <<Title>>],
                 [NewNode("title") EXCEPT !.kids = <<3>>],
                 NewNode("text") >>
    /\ log = <<>>
    /\ defs = <<>>
    /\ err = "none"
    /\ pc = "parsing"
    /\ ndef = 0
    /\ render_debug \in BOOLEAN
    /\ call = NoCall

Next ==
    \/ \E in \in DirectiveInputs : DefineDirective(in)
    \/ \E in \in RoleInputs : DefineRole(in)
    \/ \E in \in AutoInputs : DefineAuto(in)
    \/ ParsedHook
    \/ ResolvingHook

Spec == Init /\ [][Next]_vars

(***************************************************************************)
(* One definition taken step by step: build_pending_node, the hooks its    *)
(* process_pending_node (or any holder of the Placeholder) registers with  *)
(* hook_raw_data, hook_parsed_data, hook_markup_text, hook_rendered_node,  *)
(* then render_pending_node.                                               *)
(***************************************************************************)
\* The hooks registered on one Placeholder.
MaxHooks == 4

\* The Placeholder the definition built.
Built == defs[1].node

Registered == Len(heap[Built].hooks["raw_data"]) + Len(heap[Built].hooks["parsed_data"])
              + Len(heap[Built].hooks["markup_text"]) + Len(heap[Built].hooks["rendered_node"])

\* An Immediate definition: its data and template.
ChainInputs == {in \in Inputs(TemplateFails, {"none"}, BOOLEAN) : in.tmpl.phase = "Parsing"}

BuiltDef(b, in, surface) ==
    [b.w EXCEPT !.defs = <<[valid |-> in.valid, tmpl |-> in.tmpl, surface |-> surface,
                            node |-> b.id, out |-> b.id, ret |-> "built"]>>]

ChainBuild(in, surface) ==
    /\ pc = "defining"
    /\ Commit(BuiltDef(build_pending_node(World, in.valid, in.tmpl, surface), in, surface),
              "built")
    /\ UNCHANGED <<ndef, render_debug>>

\* self._<list>_hooks.append(hook); a hook is known by when it was registered.
Hook(list) ==
    /\ heap' = [heap EXCEPT ![Built].hooks[list] = Append(@, Registered + 1)]
    /\ UNCHANGED <<log, defs, err, pc, ndef, render_debug, call>>

hook_raw_data ==
    /\ pc = "built" /\ Registered < MaxHooks
    /\ Hook("raw_data")

hook_parsed_data ==
    /\ pc = "built" /\ Registered < MaxHooks
    /\ Hook("parsed_data")

hook_markup_text ==
    /\ pc = "built" /\ Registered < MaxHooks
    /\ Hook("markup_text")

hook_rendered_node ==
    /\ pc = "built" /\ Registered < MaxHooks
    /\ Hook("rendered_node")

ChainRender ==
    /\ pc = "built"
    /\ Commit(render_pending_node(World, Built, defs[1].surface).w, "rendered")
    /\ UNCHANGED <<ndef, render_debug>>

ChainInit ==
    /\ heap = << [NewNode("document") EXCEPT !.kids = <<Title>>],
                 [NewNode("title") EXCEPT !.kids = <<3>>],
                 NewNode("text") >>
    /\ log = <<>>
    /\ defs = <<>>
    /\ err = "none"
    /\ pc = "defining"
    /\ ndef = 0
    /\ render_debug \in BOOLEAN
    /\ call = NoCall

ChainNext ==
    \/ \E in \in ChainInputs, surface \in {"directive", "role"} : ChainBuild(in, surface)
    \/ hook_raw_data
    \/ hook_parsed_data
    \/ hook_markup_text
    \/ hook_rendered_node
    \/ ChainRender

ChainSpec == ChainInit /\ [][ChainNext]_vars

(***************************************************************************)
(* The document, with a holder of a Placeholder that calls render on it    *)
(* after a scan has rendered and replaced it.                              *)
(***************************************************************************)
\* pending_node.render(host) on a Placeholder that was replaced.  render
\* keeps no record of having run and tests nothing before step 0.
RenderAgain(p) ==
    /\ pc \in {"parsed", "resolved"}
    /\ heap[p].kind = "pending"
    /\ \E i \in DOMAIN log : log[i].ev = "replace" /\ log[i].n = p
    /\ Commit(render(World, p, "Parsed").w, "rendered_again")
    /\ UNCHANGED <<ndef, render_debug>>

AgainNext ==
    \/ Next
    \/ \E p \in DOMAIN heap : RenderAgain(p)

AgainSpec == Init /\ [][AgainNext]_vars

(***************************************************************************)
(* One Placeholder constructed directly, as auto.py constructs one, with   *)
(* children and attributes; a host renders it, and the holder of the       *)
(* result flattens it with rendered_node.inline.                           *)
(***************************************************************************)
\* The children a Placeholder is constructed with.
MaxKids == 2

ChildKinds == {"emphasis", "strong"}

AttrSets == SUBSET {"classes"}

\* A source line, or none.
Lines == {0, 7}

\* What a Placeholder is constructed from here: data and a template that
\* holds no definition of its own.
ResultInputs == {in \in Inputs(TemplateFails, {"none"}, BOOLEAN) : in.tmpl.phase = "Parsed"}

\* The children, then the Placeholder holding them.
Constructed(w, in, inline, kinds, atts, line) ==
    Alloc([w EXCEPT !.heap = @ \o [i \in 1..Len(kinds) |-> NewNode(kinds[i])]],
          [pending_node(in.valid, in.tmpl) EXCEPT
              !.inline = inline, !.atts = atts, !.line = line,
              !.kids = [i \in 1..Len(kinds) |-> Len(w.heap) + i]])

\* pending_node(data, tmpl, inline, rawsource, *children, **attributes), and
\* the source location its holder gives it.
Construct(in, inline, kinds, atts, line) ==
    /\ pc = "constructing"
    /\ Commit(BuiltDef([w |-> Emit(Constructed(World, in, inline, kinds, atts, line),
                                   "new", Len(heap) + Len(kinds) + 1, "direct"),
                        id |-> Len(heap) + Len(kinds) + 1],
                       in, "direct"),
              "built")
    /\ UNCHANGED <<ndef, render_debug>>

\* pending.render(host)
ResultRender(host) ==
    /\ pc = "built"
    /\ Commit(render(World, Built, host).w, "rendered")
    /\ UNCHANGED <<ndef, render_debug>>

\* The call rendered.inline(inliner) with what the result held before it and
\* what the call returned.
InlineCall(r, f) ==
    /\ heap' = f.w.heap
    /\ call' = [fn |-> "rendered_node.inline", r |-> r, had |-> heap[r].kids,
                data |-> heap[r].data, ns |-> f.ns, msgs |-> f.msgs]

\* rendered.inline(inliner), by the holder of the result.
ResultInline ==
    /\ pc = "rendered"
    /\ InlineCall(CHOOSE r \in 1..Len(heap) : heap[r].kind = "rendered" /\ heap[r].src = Built,
                  rendered_inline(World,
                                  CHOOSE r \in 1..Len(heap) :
                                      heap[r].kind = "rendered" /\ heap[r].src = Built,
                                  [inliner |-> TRUE]))
    /\ pc' = "flattened"
    /\ UNCHANGED <<log, defs, err, ndef, render_debug>>

ResultInit ==
    /\ heap = << [NewNode("document") EXCEPT !.kids = <<Title>>],
                 [NewNode("title") EXCEPT !.kids = <<3>>],
                 NewNode("text") >>
    /\ log = <<>>
    /\ defs = <<>>
    /\ err = "none"
    /\ pc = "constructing"
    /\ ndef = 0
    /\ render_debug \in BOOLEAN
    /\ call = NoCall

ResultNext ==
    \/ \E in \in ResultInputs, inline \in BOOLEAN, kinds \in SeqsUpTo(ChildKinds, MaxKids),
          atts \in AttrSets, line \in Lines : Construct(in, inline, kinds, atts, line)
    \/ \E host \in Phases : ResultRender(host)
    \/ ResultInline

ResultSpec == ResultInit /\ [][ResultNext]_vars

(***************************************************************************)
(* template.py: Template.render and Template._merge_ctx.                   *)
(***************************************************************************)
\* The largest value a context variable takes.
MaxVal == 3

Names == {"x", "y"}

\* The mappings name -> value: a dict context, a Data as asdict() shows it,
\* an extra context.
Mappings == UNION {[ks -> 1..MaxVal] : ks \in SUBSET Names}

Dict(m) == [kind |-> "dict", map |-> m]

\* for name, ectx in ...items(): if name in finalctx: continue;
\* finalctx[name] = ectx
MergeExtra(finalctx, extra) == finalctx @@ extra

\* Template._merge_ctx(self, ctx, extra): both parameters are required.  It
\* reads ctx.main and ctx.extra, attributes a dict does not have; the
\* parameter `extra` is not read.
merge_ctx(ctx, extra) ==
    IF ctx = Missing \/ extra = Missing THEN Raised("TypeError")
    ELSE IF ctx.kind = "dict" THEN Raised("AttributeError")
    ELSE IF ctx.main.kind = "Data" THEN Return(MergeExtra(ctx.main.map, ctx.extra))
    ELSE Raised("AssertionError")

\* After finalctx: _render, the parser, the debug report.
RenderFinal(finalctx) ==
    IF finalctx.raised # "none" THEN finalctx ELSE Return(finalctx.val)

\* Template.render(parser, ctx, extra): finalctx = self._merge_ctx(ctx), a
\* call that passes one argument for two parameters.  The value returned here
\* is the context the template text is evaluated in.
Template_render(ctx, extra) == RenderFinal(merge_ctx(ctx, Missing))

CallTemplateRender(ctx, extra) ==
    /\ call = NoCall
    /\ call' = [fn |-> "Template.render", ctx |-> ctx, extra |-> extra,
                res |-> Template_render(Dict(ctx), extra)]
    /\ UNCHANGED <<heap, log, defs, err, pc, ndef, render_debug>>

(***************************************************************************)
(* renderer.py: Renderer.  The text is known by what the host's parser     *)
(* does with it: it raises, or it returns elements (a block parser) or     *)
(* elements and system messages (an inline parser).                        *)
(***************************************************************************)
\* The elements one parse returns, and the children of one paragraph.
MaxElems == 2

Element(kind, kids) == [kind |-> kind, kids |-> kids]

InlineElements == {Element(k, <<>>) : k \in {"text", "emphasis"}}

SystemMessage == Element("system_message", <<>>)

BlockElements ==
    {Element("paragraph", ks) : ks \in SeqsUpTo(InlineElements, MaxElems)}
    \cup {Element("bullet_list", <<>>), SystemMessage}

ParserRaises == [raised |-> TRUE, ns |-> <<>>, msgs |-> <<>>]

\* No parser was called.
NotParsed == [raised |-> FALSE, ns |-> <<>>, msgs |-> <<>>]

\* v.parse_text_to_nodes(text); parser.parse(text, doc) then doc.children
BlockOutcomes ==
    {ParserRaises}
    \cup {[raised |-> FALSE, ns |-> ns, msgs |-> <<>>] : ns \in SeqsUpTo(BlockElements, MaxElems)}

\* v.parse_inline(text); v.inliner.parse(text, ...)
InlineOutcomes ==
    {ParserRaises}
    \cup {[raised |-> FALSE, ns |-> ns, msgs |-> ms] :
             ns \in SeqsUpTo(InlineElements, MaxElems),
             ms \in SeqsUpTo({SystemMessage}, MaxElems)}

Hosts == {"directive", "role", "transform"}

\* Report(...): the diagnostic element of this package.
Report(kids) == Element("report", kids)

\* _safe_render as it would be without the try.
safe_render_propagates(out) ==
    IF out.raised THEN Raised("Exception") ELSE Return(out.ns)

\* Renderer._safe_render(fn, text)
safe_render(out) ==
    IF out.raised THEN Return(<<Report(<<>>)>>) ELSE Return(out.ns)

\* Renderer._safe_render_inline(fn, text): the system messages become
\* reports after the elements.
safe_render_inline(out) ==
    IF out.raised THEN Return(<<Report(<<>>)>>)
    ELSE Return(out.ns \o [i \in 1..Len(out.msgs) |-> Report(out.msgs[i].kids)])

\* Renderer._render(text): a directive's and a transform's block parser; any
\* other host meets assert False.
Renderer_render_block(host, out) ==
    IF host \in {"directive", "transform"} THEN safe_render(out)
    ELSE Raised("AssertionError")

\* if ns and isinstance(ns[0], nodes.paragraph): ns = ns[0].children
FirstParagraphChildren(r) ==
    IF r.raised # "none" THEN r
    ELSE IF r.val # <<>> /\ r.val[1].kind = "paragraph" THEN Return(r.val[1].kids)
    ELSE r

\* Renderer._render_inline(text)
Renderer_render_inline(host, out) ==
    IF host \in {"directive", "role"} THEN safe_render_inline(out)
    ELSE FirstParagraphChildren(Renderer_render_block(host, out))

\* Renderer.render(text, inline)
Renderer_render(host, inline, out) ==
    IF inline THEN Renderer_render_inline(host, out) ELSE Renderer_render_block(host, out)

\* What the parser the call reaches can do: the inline parser of a directive
\* or a role, the block parser otherwise; a role has no block parser and
\* none is called.
OutcomesFor(host, inline) ==
    IF inline /\ host \in {"directive", "role"} THEN InlineOutcomes
    ELSE IF host = "role" THEN {NotParsed}
    ELSE BlockOutcomes

CallRendererRender(host, inline, out) ==
    /\ call = NoCall
    /\ call' = [fn |-> "Renderer.render", host |-> host, inline |-> inline, out |-> out,
                res |-> Renderer_render(host, inline, out)]
    /\ UNCHANGED <<heap, log, defs, err, pc, ndef, render_debug>>

(***************************************************************************)
(* template.py: Phase, and __init__.py: TemplateDirective.  A string is    *)
(* the sequence of its characters.                                         *)
(***************************************************************************)
\* The upper-case letter of each lower-case letter the strings here use.
UpperOf ==
    ("a" :> "A") @@ ("d" :> "D") @@ ("e" :> "E") @@ ("f" :> "F") @@ ("g" :> "G") @@ ("i" :> "I") @@ ("m" :> "M") @@ ("n" :> "N") @@ ("o" :> "O") @@ ("p" :> "P") @@ ("r" :> "R") @@ ("s" :> "S") @@ ("t" :> "T")

LowerLetters == DOMAIN UpperOf

UpperLetters == {UpperOf[c] : c \in LowerLetters}

IsLetter(c) == c \in LowerLetters \cup UpperLetters

ToUpper(c) == IF c \in LowerLetters THEN UpperOf[c] ELSE c

ToLower(c) == IF c \in UpperLetters THEN CHOOSE l \in LowerLetters : UpperOf[l] = c ELSE c

\* str.lower()
lower(t) == [i \in 1..Len(t) |-> ToLower(t[i])]

\* str.title(): a letter that starts a word is upper-cased, any other letter
\* lower-cased; a word starts after every character that is not a letter.
title(t) ==
    [i \in 1..Len(t) |->
        IF i = 1 \/ ~IsLetter(t[i - 1]) THEN ToUpper(t[i]) ELSE ToLower(t[i])]

\* str.strip()
RECURSIVE strip(_)
strip(t) ==
    IF t = <<>> THEN t
    ELSE IF t[1] = " " THEN strip(Tail(t))
    ELSE IF t[Len(t)] = " " THEN strip(SubSeq(t, 1, Len(t) - 1))
    ELSE t

\* class Phase(Enum): the value of each member, and the member's name as
\* cls[...] looks it up.
PhaseValue ==
    [p \in Phases |->
        CASE p = "Parsing" -> <<"p", "a", "r", "s", "i", "n", "g">>
          [] p = "Parsed" -> <<"p", "a", "r", "s", "e", "d">>
          [] p = "PostTranform" -> <<"p", "o", "s", "t", "-", "t", "r", "a", "n", "s", "f", "o", "r", "m">>]

PhaseName ==
    [p \in Phases |->
        CASE p = "Parsing" -> <<"P", "a", "r", "s", "i", "n", "g">>
          [] p = "Parsed" -> <<"P", "a", "r", "s", "e", "d">>
          [] p = "PostTranform" -> <<"P", "o", "s", "t", "T", "r", "a", "n", "f", "o", "r", "m">>]

\* Phase.default()
Phase_default == "Parsing"

\* An option the directive was not given.
None == [none |-> TRUE]

\* docutils directives.choice(argument, values): the argument lower-cased and
\* stripped, if it is one of the values; ValueError otherwise.
directives_choice(arg, values) ==
    IF arg = None THEN Raised("ValueError")
    ELSE IF strip(lower(arg.s)) \in values THEN Return(strip(lower(arg.s)))
    ELSE Raised("ValueError")

\* cls[name]: the member of that name, KeyError when there is none.
PhaseByName(name) ==
    IF \E p \in Phases : PhaseName[p] = name
    THEN Return(CHOOSE p \in Phases : PhaseName[p] = name)
    ELSE Raised("KeyError")

\* return cls[choice.title()]
PhaseOfChoice(choice) ==
    IF choice.raised # "none" THEN choice ELSE PhaseByName(title(choice.val))

\* Phase.option_spec(arg)
Phase_option_spec(arg) ==
    PhaseOfChoice(directives_choice(arg, {PhaseValue[p] : p \in Phases}))

Str(t) == [s |-> t]

\* What an author writes after :on: .
OnArguments ==
    {Str(PhaseValue[p]) : p \in Phases}
    \cup {Str(PhaseName[p]) : p \in Phases}
    \cup {Str(<<" ">> \o PhaseValue[p] \o <<" ">>) : p \in Phases}
    \cup {Str(<<"p", "o", "s", "t">>), Str(<<"p", "o", "s", "t", " ", "t", "r", "a", "n", "s", "f", "o", "r", "m">>), Str(<<"p", "o", "s", "t", "t", "r", "a", "n", "s", "f", "o", "r", "m">>), Str(<<>>), None}

CallOptionSpec(arg) ==
    /\ call = NoCall
    /\ call' = [fn |-> "Phase.option_spec", arg |-> arg, res |-> Phase_option_spec(arg)]
    /\ UNCHANGED <<heap, log, defs, err, pc, ndef, render_debug>>

\* The directive's options as the host hands them to run: each given option
\* converted by its option_spec entry; a conversion that raises rejects the
\* directive and run is not called.
ConvertedOn(on) == IF on = None THEN Return("absent") ELSE Phase_option_spec(on)

\* TemplateDirective.run: phase = self.options.get('on', Phase.default()),
\* debug = 'debug' in self.options.
TemplateDirective_run(on, debug) ==
    IF on.raised # "none" THEN on
    ELSE Return(Template(IF on.val = "absent" THEN Phase_default ELSE on.val,
                         debug, "none", "none"))

CallTemplateDirective(on, debug) ==
    /\ call = NoCall
    /\ call' = [fn |-> "TemplateDirective", on |-> on, debug |-> debug,
                res |-> TemplateDirective_run(ConvertedOn(on), debug)]
    /\ UNCHANGED <<heap, log, defs, err, pc, ndef, render_debug>>

(***************************************************************************)
(* template.py: _JinjaEnv.is_safe_attribute, over the sandbox of jinja2.   *)
(***************************************************************************)
\* str.startswith(prefix)
startswith(t, prefix) ==
    Len(t) >= Len(prefix) /\ SubSeq(t, 1, Len(prefix)) = prefix

\* The objects a template can reach, by the type the sandbox tells apart.
ObjectKinds == {"data", "type", "generator", "code"}

AttrNames ==
    {<<"n", "a", "m", "e">>, <<"m", "r", "o">>, <<"g", "i", "_", "f", "r", "a", "m", "e">>, <<"g", "i", "_", "c", "o", "d", "e">>, <<"_", "p", "r", "i", "v", "a", "t", "e">>, <<"_", "_", "c", "l", "a", "s", "s", "_", "_">>, <<"_">>, <<"x", "_">>, <<>>}

\* jinja2.sandbox.is_internal_attribute(obj, attr)
is_internal_attribute(obj, attr) ==
    CASE obj = "type" /\ attr = <<"m", "r", "o">> -> TRUE
      [] obj = "code" -> TRUE
      [] obj = "generator" /\ attr \in {<<"g", "i", "_", "f", "r", "a", "m", "e">>, <<"g", "i", "_", "c", "o", "d", "e">>} -> TRUE
      [] OTHER -> startswith(attr, <<"_", "_">>)

\* SandboxedEnvironment.is_safe_attribute(obj, attr, value)
super_is_safe_attribute(obj, attr) ==
    ~(startswith(attr, <<"_">>) \/ is_internal_attribute(obj, attr))

\* is_safe_attribute as it would be without the call of the base class.
is_safe_attribute_without_super(obj, attr) ==
    IF startswith(attr, <<"_">>) THEN FALSE ELSE TRUE

\* _JinjaEnv.is_safe_attribute(obj, attr, value)
is_safe_attribute(obj, attr) ==
    IF startswith(attr, <<"_">>) THEN FALSE ELSE super_is_safe_attribute(obj, attr)

CallIsSafeAttribute(obj, attr) ==
    /\ call = NoCall
    /\ call' = [fn |-> "is_safe_attribute", obj |-> obj, attr |-> attr,
                res |-> is_safe_attribute(obj, attr)]
    /\ UNCHANGED <<heap, log, defs, err, pc, ndef, render_debug>>

(***************************************************************************)
(* render/pipeline.py: StrictDataDefineDirective.derive.  A schema is its  *)
(* name field, its attrs in the order of the dict, and its content field.  *)
(***************************************************************************)
\* The attrs of a schema.
MaxAttrs == 2

Field(required) == [required |-> required]

Fields == {Field(b) : b \in BOOLEAN}

DirectiveNames == {<<"d", "o", "g">>, <<"p", "e", "t">>}

AttrKeys == {<<"a", "g", "e">>, <<"s", "i", "r", "e">>, <<"d", "a", "m">>}

\* dict[str, Field]: the items in insertion order, no key twice.
AttrDicts ==
    {d \in SeqsUpTo([name : AttrKeys, field : Fields], MaxAttrs) :
        \A i, j \in 1..Len(d) : d[i].name = d[j].name => i = j}

Schemas == [name : Fields \cup {None}, attrs : AttrDicts, content : Fields \cup {None}]

\* required_arguments and optional_arguments, from schema.name.
ArgumentCounts(schema) ==
    IF schema.name = None THEN <<0, 0>>
    ELSE IF schema.name.required THEN <<1, 0>>
    ELSE <<0, 1>>

\* for name, field in schema.attrs.items(): option_spec[name] = ...
OptionSpecOf(attrs) ==
    [k \in {attrs[i].name : i \in 1..Len(attrs)} |->
        IF (CHOOSE i \in 1..Len(attrs) : attrs[i].name = k) \in
               {i \in 1..Len(attrs) : attrs[i].field.required}
        THEN "unchanged_required" ELSE "unchanged"]

\* The variable `name` when the loop over schema.attrs.items() is over: the
\* loop's own variable is called `name` too, so each item assigns its key to
\* the parameter.
NameAfterLoop(name, attrs) ==
    IF attrs = <<>> THEN name ELSE attrs[Len(attrs)].name

\* '%sStrictDataDefineDirective' % name.title()
ClassName(name) ==
    title(name) \o <<"S", "t", "r", "i", "c", "t", "D", "a", "t", "a", "D", "e", "f", "i", "n", "e", "D", "i", "r", "e", "c", "t", "i", "v", "e">>

\* StrictDataDefineDirective.derive(name, schema, tmpl): the class, by its
\* name and its attributes.
derive(name, schema, tmpl) ==
    [cls |-> ClassName(NameAfterLoop(name, schema.attrs)),
     schema |-> schema,
     template |-> tmpl,
     has_content |-> schema.content # None,
     required_arguments |-> ArgumentCounts(schema)[1],
     optional_arguments |-> ArgumentCounts(schema)[2],
     option_spec |-> OptionSpecOf(schema.attrs)]

CallDerive(name, schema, tmpl) ==
    /\ call = NoCall
    /\ call' = [fn |-> "derive", name |-> name, schema |-> schema, tmpl |-> tmpl,
                res |-> derive(name, schema, tmpl)]
    /\ UNCHANGED <<heap, log, defs, err, pc, ndef, render_debug>>

\* No document is read: one function is called, with any arguments.
FnInit ==
    /\ heap = <<>> /\ log = <<>> /\ defs = <<>> /\ err = "none"
    /\ pc = "fn" /\ ndef = 0 /\ render_debug = FALSE
    /\ call = NoCall

FnNext ==
    \/ \E ctx \in Mappings, extra \in Mappings : CallTemplateRender(ctx, extra)
    \/ \E host \in Hosts, inline \in BOOLEAN :
           \E out \in OutcomesFor(host, inline) : CallRendererRender(host, inline, out)
    \/ \E arg \in OnArguments : CallOptionSpec(arg)
    \/ \E on \in OnArguments, debug \in BOOLEAN : CallTemplateDirective(on, debug)
    \/ \E obj \in ObjectKinds, attr \in AttrNames : CallIsSafeAttribute(obj, attr)
    \/ \E name \in DirectiveNames, schema \in Schemas :
           CallDerive(name, schema, NestedTemplate("Parsing"))

FnSpec == FnInit /\ [][FnNext]_vars


(***************************************************************************)
(* Reading the state: the tree and the log.                                *)
(***************************************************************************)
Nodes == 1..Len(heap)

Pendings == {n \in Nodes : heap[n].kind = "pending"}

RECURSIVE Subtree(_)
Subtree(n) == {n} \cup UNION {Subtree(heap[n].kids[i]) : i \in 1..Len(heap[n].kids)}

\* The nodes of the document tree.
InTree == Subtree(Document)

Is(i, ev, n) == log[i].ev = ev /\ log[i].n = n

\* The positions of the log where `ev` happened to node n.
At(ev, n) == {i \in DOMAIN log : Is(i, ev, n)}

\* The rendered_node the render chain of p made.
ResultOf(p) == CHOOSE r \in Nodes : heap[r].kind = "rendered" /\ heap[r].src = p

KidsOfKind(r, kinds) == {i \in 1..Len(heap[r].kids) : heap[heap[r].kids[i]].kind \in kinds}

Reports(r) == Cardinality(KidsOfKind(r, {"report"}))

\* The elements of r that the markup produced.
Content(r) == Cardinality(KidsOfKind(r, {"paragraph", "text", "pending", "rendered"}))

\* C1: the render chain of a Placeholder executes at most once, and once a
\* Placeholder has been rendered or replaced no later scan finds or renders it.
C1_RenderedOnceNeverFoundAgain ==
    \A i \in DOMAIN log :
        log[i].ev \in {"render", "replace"} =>
            \A j \in (i + 1)..Len(log) :
                ~(log[j].n = log[i].n /\ log[j].ev \in {"visit", "render"})

\* Both scans have run, the first replaced a Placeholder, the second found one.
C1_Witness ==
    /\ pc = "resolved"
    /\ \E i \in DOMAIN log : log[i].ev = "replace" /\ log[i].a = "Parsed"
    /\ \E i \in DOMAIN log : log[i].ev = "visit" /\ log[i].a = "PostTranform"

\* C2: a scan renders and replaces a Placeholder it finds if and only if the
\* Placeholder's phase is the scan's.
C2_ScanRendersAndReplacesIffPhase ==
    \A i \in DOMAIN log :
        log[i].ev = "visit" =>
            ( heap[log[i].n].tmpl.phase = log[i].a
              <=> /\ \E j \in At("render", log[i].n) : j > i /\ log[j].a = log[i].a
                  /\ \E j \in At("replace", log[i].n) : j > i /\ log[j].a = log[i].a )

\* C3: every call of render_or_pass returns; it builds the Placeholder from
\* the data and template it is given; with phase Parsing it has run the
\* render chain when it returns, and returns the rendered node; with any
\* other phase it returns the Placeholder and has not run the chain.
C3_RenderOrPass ==
    /\ \A i \in DOMAIN log :
           log[i].ev = "call" => At("return", log[i].n) # {}
    /\ \A k \in DOMAIN defs :
           LET d == defs[k]
               ran == \E j \in At("return", d.node) :
                          \E i \in 1..(j - 1) : Is(i, "render", d.node)
           IN  /\ heap[d.node].kind = "pending"
               /\ heap[d.node].tmpl = d.tmpl
               /\ heap[d.node].valid = d.valid
               /\ d.tmpl.phase = "Parsing" =>
                      /\ d.ret = "rendered" /\ ran
                      /\ heap[d.out].kind = "rendered" /\ heap[d.out].src = d.node
               /\ d.tmpl.phase # "Parsing" =>
                      d.ret = "pending" /\ d.out = d.node /\ ~ran

\* C4: when the post-parse scan and the post-resolve scan have completed, no
\* Placeholder remains in the document tree.
C4_NoPlaceholderRemains ==
    pc = "resolved" => InTree \cap Pendings = {}

\* The Placeholders a scan bound to phase s is due to render: made before the
\* scan started, with phase s.
DueBefore(i) ==
    {p \in Pendings : heap[p].tmpl.phase = log[i].a /\ \E j \in At("new", p) : j < i}

\* C5: when a render chain run by a scan fails, the scan does not abort: no
\* error leaves it, the failed Placeholder is replaced by a result holding a
\* report, and no other due Placeholder is left in the tree.
C5_ScanFailureIsolation ==
    \A i \in DOMAIN log :
        (log[i].ev = "scan" /\
         \E j \in DOMAIN log : j > i /\ log[j].ev = "fail" /\ heap[log[j].n].tmpl.phase = log[i].a)
        => /\ err = "none"
           /\ DueBefore(i) \cap InTree = {}
           /\ \A p \in DueBefore(i) :
                  At("fail", p) # {} => At("replace", p) # {} /\ Reports(ResultOf(p)) >= 1

\* C6: render_or_pass returns normally for every definition; an Immediate
\* definition whose data fails validation gives a result with one report and
\* nothing else, one that is valid and renders gives its content, and a
\* directive's result is in the document whatever came before it.
C6_DefineFailureIsolation ==
    /\ \A i \in DOMAIN log :
           log[i].ev = "call" => \E j \in (i + 1)..Len(log) : Is(j, "return", log[i].n)
    /\ LET tree == InTree IN
       \A k \in DOMAIN defs :
           LET d == defs[k] IN
           d.tmpl.phase = "Parsing" =>
               /\ d.ret = "rendered"
               /\ ~d.valid => Reports(d.out) = 1 /\ Content(d.out) = 0
               /\ (d.valid /\ d.tmpl.fail = "none") =>
                      Content(d.out) >= 1 /\ heap[d.out].data = "parsed"
               /\ d.surface = "directive" => d.out \in tree

\* C7: when validation fails, render raises nothing and returns a result with
\* exactly one report and no content.
C7_ValidationFailureGivesOnlyReport ==
    /\ \A i \in DOMAIN log : ~(log[i].ev = "raise" /\ log[i].a = "ValueError")
    /\ \A p \in Pendings :
           (At("render", p) # {} /\ ~heap[p].valid) =>
               /\ Reports(ResultOf(p)) = 1
               /\ Len(heap[ResultOf(p)].kids) = 1
               /\ heap[ResultOf(p)].data = "none"

\* A render chain failed at validation.
C7_Witness ==
    \E p \in Pendings : At("render", p) # {} /\ ~heap[p].valid /\ At("fail", p) # {}

StageOrder == <<"validate", "template", "markup", "assemble">>

\* The stages the render chain of p ran, in order.
StagesOf(p) ==
    LET e == SelectSeq(log, LAMBDA x : x.ev = "stage" /\ x.n = p)
    IN  [i \in 1..Len(e) |-> e[i].a]

\* C8: the stages run in the order validate, template, markup, assemble; a
\* failed stage is the last one run, nothing follows it, and the result then
\* holds no content; without a failure all four run.
C8_StrictShortCircuit ==
    \A i \in DOMAIN log :
        log[i].ev = "render" =>
            LET p == log[i].n
                st == StagesOf(p)
                failed == At("fail", p)
            IN  /\ st = SubSeq(StageOrder, 1, Len(st))
                /\ \A k \in failed :
                       /\ log[k].a = st[Len(st)]
                       /\ \A j \in (k + 1)..Len(log) : ~Is(j, "stage", p)
                       /\ Content(ResultOf(p)) = 0
                /\ failed = {} => st = StageOrder

\* A chain stopped at the template stage, and another one ran to the end.
C8_Witness ==
    /\ \E p \in Pendings : \E i \in At("fail", p) : log[i].a = "template"
    /\ \E p \in Pendings : At("render", p) # {} /\ At("fail", p) = {}

\* The generator passes a Placeholder of this phase is to have had when its
\* render chain starts.
ExpectedPasses(phase) ==
    CASE phase = "Parsing" -> <<"on_parsing", "on_anytime">>
      [] phase = "Parsed" -> <<"on_parsing", "on_parsed", "on_anytime">>
      [] phase = "PostTranform" ->
             <<"on_parsing", "on_parsed", "on_post_transform", "on_anytime">>

PassesBefore(p, i) ==
    LET e == SelectSeq(SubSeq(log, 1, i - 1), LAMBDA x : x.ev = "gen" /\ x.n = p)
    IN  [k \in 1..Len(e) |-> e[k].a]

\* C9: when the render chain of a Placeholder starts, the generator has run
\* on it once per checkpoint up to its own, in order, then on_anytime.
C9_EveryCheckpointBeforeRender ==
    \A p \in Pendings :
        \A i \in At("render", p) : PassesBefore(p, i) = ExpectedPasses(heap[p].tmpl.phase)

\* C10: a scan runs its checkpoint's generator on every Placeholder it finds,
\* first thing and whatever the Placeholder's phase; the Placeholder holds
\* that checkpoint's context from then on.
C10_ScanGeneratesForEveryPlaceholder ==
    \A i \in DOMAIN log :
        log[i].ev = "visit" =>
            /\ i < Len(log)
            /\ Is(i + 1, "gen", log[i].n) /\ log[i + 1].a = CheckpointOf(log[i].a)
            /\ CheckpointOf(log[i].a) \in DOMAIN heap[log[i].n].extra

\* The post-parse scan found a Placeholder that is due only after resolving.
C10_Witness ==
    \E i \in DOMAIN log :
        /\ log[i].ev = "visit" /\ log[i].a = "Parsed"
        /\ heap[log[i].n].tmpl.phase = "PostTranform"
        /\ "on_parsed" \in DOMAIN heap[log[i].n].extra

\* The checkpoints whose generator has run on p so far, in order.
PassesOf(p) == PassesBefore(p, Len(log) + 1)

\* C11: a key of a Placeholder's extra context keeps the value the first
\* checkpoint that offered it gave it, whatever later checkpoints and the
\* anytime pass offer; the keys are those of every pass so far, so they only
\* grow as passes are added.
C11_ExtraContextFirstWriteWins ==
    \A p \in Pendings :
        LET ps == PassesOf(p)
            ex == heap[p].extra
        IN  /\ DOMAIN ex = {ps[k] : k \in 1..Len(ps)}
                              \cup (IF ps = <<>> THEN {} ELSE {"shared"})
            /\ \A k \in 1..Len(ps) : ex[ps[k]] = ps[k]
            /\ ps # <<>> => ex["shared"] = ps[1]

\* A Placeholder rendered by the post-resolve scan after three checkpoints
\* offered the shared key: it holds the value of the first.
C11_Witness ==
    \E p \in Pendings :
        /\ At("render", p) # {}
        /\ PassesOf(p) = <<"on_parsing", "on_parsed", "on_post_transform", "on_anytime">>
        /\ heap[p].extra["shared"] = "on_parsing"

\* C12: the context Template.render evaluates a template in holds every data
\* field with its data value, and an extra entry only for a name the data
\* does not have: data {x:1} with extra {x:2, y:3} gives {x:1, y:3}.
C12_DataWinsMerge ==
    call.fn = "Template.render" =>
        /\ call.res.raised = "none"
        /\ call.res.val = call.ctx @@ call.extra

\* The hooks of list l that ran on p, in the order they ran.
HooksRun(p, l) ==
    LET e == SelectSeq(log, LAMBDA x : x.ev = "hook" /\ x.n = p /\ x.a = l)
    IN  [i \in 1..Len(e) |-> e[i].h]

\* The last event before position i that is not a hook of the list running
\* at i: what the hooks of that list came immediately after.
RECURSIVE CameAfter(_)
CameAfter(i) ==
    IF log[i - 1].ev = "hook" /\ log[i - 1].a = log[i].a /\ log[i - 1].n = log[i].n
    THEN CameAfter(i - 1) ELSE log[i - 1]

\* The stage whose result a hook list is given.
StageOfHooks(l) ==
    CASE l = "raw_data" -> "validate"
      [] l = "parsed_data" -> "validate"
      [] l = "markup_text" -> "template"
      [] l = "rendered_node" -> "assemble"

StageNo(st) == CHOOSE k \in 1..4 : StageOrder[k] = st

\* The hooks of l run completely, in registration order, or not at all.
InRegistrationOrder(p, l) == HooksRun(p, l) \in {<<>>, heap[p].hooks[l]}

\* The hooks of l ran immediately after the stage `st` of p, which raised
\* nothing (a failure is logged right after its stage).
RanAfterStage(p, l, st) ==
    \A i \in DOMAIN log :
        (Is(i, "hook", p) /\ log[i].a = l) =>
            CameAfter(i) = [ev |-> "stage", n |-> p, a |-> st]

\* When a stage of p fails, no hook list given that stage's result or a
\* later one runs.
NoneFromFailedStageOn(p, lists) ==
    \A k \in At("fail", p) :
        \A l \in lists :
            StageNo(StageOfHooks(l)) >= StageNo(log[k].a) => HooksRun(p, l) = <<>>

\* C13 as claimed: every hook list runs in registration order, only
\* immediately after its stage has succeeded, and when a stage fails no hook
\* of that stage or a later one is called.
C13_HooksOnlyAfterStageSucceeded ==
    \A p \in Pendings :
        /\ \A l \in HookLists : InRegistrationOrder(p, l) /\ RanAfterStage(p, l, StageOfHooks(l))
        /\ NoneFromFailedStageOn(p, HookLists)

\* C13 amended: the parsed-data, markup-text and rendered-node hooks run in
\* registration order, only immediately after validation, template rendering
\* and assembly succeeded, all of them when the stage succeeded and none of a
\* failed or later stage; the raw-data hooks run in registration order
\* immediately before validation, whether or not it then succeeds.
C13_HooksAfterStageRawDataBefore ==
    \A p \in Pendings :
        At("render", p) # {} =>
            LET late == HookLists \ {"raw_data"} IN
            /\ \A l \in HookLists : InRegistrationOrder(p, l)
            /\ \A l \in late : RanAfterStage(p, l, StageOfHooks(l))
            /\ NoneFromFailedStageOn(p, late)
            /\ \A l \in late :
                   (StageOfHooks(l) \in {StagesOf(p)[k] : k \in 1..Len(StagesOf(p))}
                    /\ \A k \in At("fail", p) : log[k].a # StageOfHooks(l))
                   => HooksRun(p, l) = heap[p].hooks[l]
            /\ HooksRun(p, "raw_data") = heap[p].hooks["raw_data"]
            /\ \A i \in DOMAIN log :
                   (Is(i, "hook", p) /\ log[i].a = "raw_data") =>
                       /\ CameAfter(i).ev = "render"
                       /\ \E j \in (i + 1)..Len(log) :
                              /\ log[j] = [ev |-> "stage", n |-> p, a |-> "validate"]
                              /\ \A m \in (i + 1)..(j - 1) :
                                     Is(m, "hook", p) /\ log[m].a = "raw_data"

\* A chain with two raw-data hooks, a parsed-data hook and a markup-text hook
\* that failed at the template stage: the first three ran, in order.
C13_Witness ==
    /\ pc = "rendered"
    /\ \E k \in At("fail", Built) : log[k].a = "template"
    /\ Len(heap[Built].hooks["raw_data"]) = 2
    /\ HooksRun(Built, "raw_data") = heap[Built].hooks["raw_data"]
    /\ Len(HooksRun(Built, "parsed_data")) = 1
    /\ Len(heap[Built].hooks["markup_text"]) = 1
    /\ HooksRun(Built, "markup_text") = <<>>

\* The last element of the result r is a report.
EndsWithReport(r) ==
    Len(heap[r].kids) > 0 /\ heap[heap[r].kids[Len(heap[r].kids)]].kind = "report"

\* C14: the result of a render chain ends with the chain's report if and only
\* if a stage failed, or the template's debug flag is set, or the process-wide
\* toggle is set; otherwise the result holds no report of this chain.  The
\* chain adds at most one.
C14_DebugReportIff ==
    \A i \in DOMAIN log :
        log[i].ev = "render" =>
            LET p == log[i].n
                r == ResultOf(p)
                due == At("fail", p) # {} \/ heap[p].tmpl.debug \/ render_debug
            IN  /\ due <=> EndsWithReport(r)
                /\ Reports(r) = IF due THEN 1 ELSE 0

\* A chain that succeeded with the template's flag off and the toggle on,
\* and holds its content followed by the report.
C14_Witness ==
    /\ render_debug
    /\ \E p \in Pendings :
           /\ At("render", p) # {} /\ At("fail", p) = {} /\ ~heap[p].tmpl.debug
           /\ Content(ResultOf(p)) >= 1 /\ EndsWithReport(ResultOf(p))

\* The elements of a sequence.
Range(q) == {q[i] : i \in DOMAIN q}

\* C15 as claimed: for every host and both values of inline, Renderer.render
\* raises nothing and returns a list; when the host's parser raised, the
\* list holds one diagnostic element.
C15_RendererNeverPropagates ==
    call.fn = "Renderer.render" =>
        /\ call.res.raised = "none"
        /\ call.out.raised => call.res.val = <<Report(<<>>)>>

\* C15 amended: the same for a directive and a transform with both values of
\* inline and for a role with inline set; a role asked for block elements is
\* refused by an assertion before any parser is called.
C15_RendererNeverPropagatesButRoleBlock ==
    call.fn = "Renderer.render" =>
        IF call.host = "role" /\ ~call.inline
        THEN call.res.raised = "AssertionError"
        ELSE /\ call.res.raised = "none"
             /\ call.out.raised => call.res.val = <<Report(<<>>)>>

\* A transform asked for inline elements whose parser raised: one report.
C15_Witness ==
    /\ call.fn = "Renderer.render" /\ call.host = "transform" /\ call.inline
    /\ call.out.raised /\ call.res = Return(<<Report(<<>>)>>)

\* C17: a transform host has a block parser only; asked for inline elements,
\* Renderer.render returns the children of the first paragraph: one
\* paragraph gives exactly its children, and nothing the block parse
\* produced is lost (a paragraph's children, or the element itself).
C17_InlineEmulationLosesNothing ==
    (call.fn = "Renderer.render" /\ call.host = "transform" /\ call.inline
     /\ ~call.out.raised) =>
        /\ call.res.raised = "none"
        /\ (Len(call.out.ns) = 1 /\ call.out.ns[1].kind = "paragraph")
               => call.res.val = call.out.ns[1].kids
        /\ \A e \in Range(call.out.ns) :
               IF e.kind = "paragraph" THEN Range(e.kids) \subseteq Range(call.res.val)
               ELSE e \in Range(call.res.val)

\* The reports the render chain of p made.
ReportsOf(p) == {n \in Nodes : heap[n].kind = "report" /\ heap[n].src = p}

\* C16: a due Placeholder a scan has rendered is replaced in the form its
\* inline flag decides: with inline false by the result as one subtree; with
\* inline true by the result's elements, the emptied result staying out of
\* the tree, no report among the elements put in its place, and every report
\* of the result a child of a block container or of the document.
C16_ReplacedAsInlineFlagDecides ==
    \A i \in DOMAIN log :
        (log[i].ev = "render" /\ log[i].a \in {"Parsed", "PostTranform"}) =>
            LET p == log[i].n
                r == ResultOf(p)
                tree == InTree
            IN  /\ At("replace", p) # {}
                /\ p \notin tree
                /\ ~heap[p].inline => r \in tree
                /\ heap[p].inline =>
                       /\ r \notin tree /\ heap[r].kids = <<>>
                       /\ \A n \in ReportsOf(p) :
                              \E b \in tree :
                                  /\ heap[b].kind \in BlockKinds \cup {"document"}
                                  /\ IsKid(World, b, n)

\* C18: calling the render chain again on a Placeholder that has been
\* rendered and replaced fails: the second call raises, and gives no result.
C18_RerenderIsFatal ==
    \A p \in Pendings :
        Cardinality(At("render", p)) >= 2 =>
            /\ err # "none"
            /\ Cardinality({r \in Nodes : heap[r].kind = "rendered" /\ heap[r].src = p}) = 1

\* C19: a template declared without a phase gets Phase.Parsing; for every
\* member p of Phase, Phase.option_spec(p.value) returns p; an argument that
\* (lower-cased and stripped, as the host reads a choice) is not the value
\* of a member is rejected; so every accepted Template has one of the three
\* phases.
C19_PhaseValidated ==
    /\ call.fn = "Phase.option_spec" =>
           /\ \A p \in Phases : call.arg = Str(PhaseValue[p]) => call.res = Return(p)
           /\ (call.arg = None \/ \A p \in Phases : strip(lower(call.arg.s)) # PhaseValue[p])
                  => call.res.raised # "none"
    /\ call.fn = "TemplateDirective" =>
           /\ call.on = None => call.res = Return(Template("Parsing", call.debug, "none", "none"))
           /\ call.res.raised = "none" => call.res.val.phase \in Phases
           /\ \A p \in Phases : call.on = Str(PhaseValue[p])
                  => call.res = Return(Template(p, call.debug, "none", "none"))

\* C20: is_safe_attribute returns false for every object and every attribute
\* name that begins with '_'; for any other name it returns what the base
\* sandbox decides for that object and name.
C20_UnderscoreAttributesUnsafe ==
    call.fn = "is_safe_attribute" =>
        IF Len(call.attr) > 0 /\ call.attr[1] = "_"
        THEN call.res = FALSE
        ELSE call.res = super_is_safe_attribute(call.obj, call.attr)

\* A name with the prefix asked of a plain data object, and refused.
C20_Witness ==
    /\ call.fn = "is_safe_attribute" /\ call.obj = "data"
    /\ call.attr = <<"_", "p", "r", "i", "v", "a", "t", "e">> /\ call.res = FALSE

\* What an event of the log is called in an order of events: a generator
\* pass by its checkpoint, anything else by what happened.
Label(x) == IF x.ev = "gen" THEN x.a ELSE x.ev

\* The events of the dispatch that started at position i of the log, for its
\* own Placeholder, the render chain counted as the one event "render": up
\* to the return of render_or_pass, or all of them when it never returned.
DispatchFrom(i) ==
    LET e == SelectSeq(SubSeq(log, i, Len(log)),
                       LAMBDA x : x.n = log[i].n /\ x.ev \notin {"stage", "hook", "parse", "fail"})
        l == [k \in 1..Len(e) |-> Label(e[k])]
        ends == {k \in 1..Len(l) : l[k] = "return"}
    IN  IF ends = {} THEN l
        ELSE SubSeq(l, 1, CHOOSE k \in ends : \A m \in ends : k <= m)

BuildEvents == <<"call", "process_raw_data", "new", "on_parsing", "process_pending_node">>

\* C21: a define-time dispatch is, in this order: process_raw_data, the
\* Placeholder's construction, the parsing checkpoint's context,
\* process_pending_node, and for phase Parsing the anytime context, the
\* render chain, process_paresd_data when the result holds parsed data, and
\* process_rendered_node; then render_or_pass returns.  For a Placeholder
\* returned pending none of the render-side events happens in the dispatch,
\* and the two render-side callbacks never.
C21_DefineTimeEventOrder ==
    \A i \in DOMAIN log :
        log[i].ev = "call" =>
            LET p == log[i].n
                r == ResultOf(p)
            IN  IF heap[p].tmpl.phase = "Parsing"
                THEN DispatchFrom(i) =
                         BuildEvents \o <<"on_anytime", "render">>
                         \o (IF heap[r].data = "parsed" THEN <<"process_paresd_data">> ELSE <<>>)
                         \o <<"process_rendered_node", "return">>
                ELSE /\ DispatchFrom(i) = BuildEvents \o <<"return">>
                     /\ At("process_paresd_data", p) = {}
                     /\ At("process_rendered_node", p) = {}

\* The kinds of the nodes of a sequence of node ids.
KindsOf(ks) == [i \in 1..Len(ks) |-> heap[ks[i]].kind]

MarkupHookCalls(p) ==
    SelectSeq(log, LAMBDA x : x.ev = "hook" /\ x.n = p /\ x.a = "markup_text")

\* C23: the text the markup parser is given is the template's output passed
\* through the markup-text hooks in registration order: the first hook is
\* given the template's output, each later one what the hook before it
\* returned, and the parser what the last one returned; without hooks the
\* parser is given the template's output.
C23_MarkupTextHookChain ==
    \A p \in Pendings :
        \A i \in At("parse", p) :
            LET e == MarkupHookCalls(p)
                hs == heap[p].hooks["markup_text"]
            IN  /\ [k \in 1..Len(e) |-> e[k].h] = hs
                /\ \A k \in 1..Len(e) :
                       e[k].got = IF k = 1 THEN TemplateOutput
                                  ELSE HookText(e[k - 1].h, e[k - 1].got)
                /\ log[i].text = IF e = <<>> THEN TemplateOutput
                                 ELSE HookText(e[Len(e)].h, e[Len(e)].got)

\* Two markup-text hooks with a hook of another list registered between
\* them: the parser was given the output, the first mark, the second mark.
C23_Witness ==
    /\ pc = "rendered"
    /\ heap[Built].hooks["markup_text"] = <<1, 3>>
    /\ \E i \in At("parse", Built) : log[i].text = <<0, 1, 3>>

IsScanStep == Len(log') > Len(log) /\ log'[Len(log) + 1].ev = "scan"

\* The phase the scan of this step is bound to.
ScanPhase == log'[Len(log) + 1].a

\* The extra context of q after the step has every key it had, with the
\* value it had.
ExtraOnlyGrows(q) ==
    \A k \in DOMAIN heap[q].extra :
        k \in DOMAIN heap'[q].extra /\ heap'[q].extra[k] = heap[q].extra[k]

\* The children of n after the step are those before it, each where it was,
\* but for Placeholders due in this scan, which may have been replaced.
ChildrenKeptButDue(n) ==
    /\ Len(heap'[n].kids) = Len(heap[n].kids)
    /\ \A i \in 1..Len(heap[n].kids) :
           \/ heap'[n].kids[i] = heap[n].kids[i]
           \/ /\ heap[heap[n].kids[i]].kind = "pending"
              /\ heap[heap[n].kids[i]].tmpl.phase = ScanPhase

C26_DeriveDeterminedByArguments ==
    call.fn = "derive" =>
        LET sch == call.schema
            res == call.res
        IN  /\ <<res.required_arguments, res.optional_arguments>> =
                   (IF sch.name = None THEN <<0, 0>>
                    ELSE IF sch.name.required THEN <<1, 0>> ELSE <<0, 1>>)
            /\ DOMAIN res.option_spec = {sch.attrs[i].name : i \in 1..Len(sch.attrs)}
            /\ \A i \in 1..Len(sch.attrs) :
                   res.option_spec[sch.attrs[i].name] =
                       IF sch.attrs[i].field.required THEN "unchanged_required" ELSE "unchanged"
            /\ res.has_content <=> sch.content # None
            /\ res.cls = ClassName(call.name)
            /\ res.schema = sch /\ res.template = call.tmpl

====
